---------------------------- MODULE Spec2Model ----------------------------
(***************************************************************************)
(* Model of the os_path crate (src/src/lib.rs), cfg(unix) configuration.   *)
(*                                                                         *)
(* A text is a sequence of characters, each character a one-character      *)
(* string.  An OsPath is a record with the four fields of the struct:      *)
(* components, absolute, directory and path (the PathBuf, kept as the text *)
(* it holds).  The variable self is the OsPath the caller holds: From      *)
(* replaces it by a freshly built value, push mutates it, join and parent  *)
(* return a new value which the caller holds from then on.                 *)
(***************************************************************************)
EXTENDS Integers, Sequences, FiniteSets, TLC

\* Longest text drawn exhaustively over Alphabet.
MaxLen == 2
\* Number of operations in one behaviour.
MaxOps == 2

-----------------------------------------------------------------------------
(* Constants of lib.rs                                                     *)

\* char::REPLACEMENT_CHARACTER (U+FFFD), written as a token.
RC == "U+FFFD"
BS == "\\"
FS == "/"
UP == <<".", ".">>
\* mod localization, cfg(unix)
ROOT == <<"/">>
SLASH == "/"
SLASH_STR == ROOT

\* usize::MAX, the value 0usize - 1 wraps to when overflow checks are off.
\* (The largest integer TLC represents stands for 2^64 - 1; it is only
\* ever compared with the length of a Vec.)
UsizeMax == 2147483647

-----------------------------------------------------------------------------
(* Input texts                                                             *)

\* The characters the bounded texts are drawn from: both slashes, the dot and a
\* letter.
Alphabet == {FS, BS, ".", "a"}

BoundedTexts == UNION {[1..n -> Alphabet] : n \in 0..MaxLen}

\* /foo/bar
TxtFooBar ==
    <<"/", "f", "o", "o", "/", "b", "a", "r">>
\* /baz.txt
TxtBaz ==
    <<"/", "b", "a", "z", ".", "t", "x", "t">>
\* /foo/bar/baz.txt
TxtFooBarBaz ==
    <<"/", "f", "o", "o", "/", "b", "a", "r", "/", "b", "a", "z", ".", "t", "x", "t">>
\* ../pow.txt
TxtUpPow ==
    <<".", ".", "/", "p", "o", "w", ".", "t", "x", "t">>
\* /foo/bar/baz/
TxtFooBarBazDir ==
    <<"/", "f", "o", "o", "/", "b", "a", "r", "/", "b", "a", "z", "/">>
\* ../../pow.txt
TxtUpUpPow ==
    <<".", ".", "/", ".", ".", "/", "p", "o", "w", ".", "t", "x", "t">>
\* /foo/bar/baz/../../zip.txt
TxtTraversal ==
    <<"/", "f", "o", "o", "/", "b", "a", "r", "/", "b", "a", "z", "/", ".", ".", "/", ".", ".", "/", "z", "i", "p", ".", "t", "x", "t">>
\* /\///\foo///bar\\baz.txt
TxtImpossible ==
    <<"/", "\\", "/", "/", "/", "\\", "f", "o", "o", "/", "/", "/", "b", "a", "r", "\\", "\\", "b", "a", "z", ".", "t", "x", "t">>
\* /foo1/foo2/foo3/bar.txt
TxtFoo123Bar ==
    <<"/", "f", "o", "o", "1", "/", "f", "o", "o", "2", "/", "f", "o", "o", "3", "/", "b", "a", "r", ".", "t", "x", "t">>
\* ../baz/zip.txt
TxtUpBazZip ==
    <<".", ".", "/", "b", "a", "z", "/", "z", "i", "p", ".", "t", "x", "t">>
\* /foo/pow.txt
TxtFooPow ==
    <<"/", "f", "o", "o", "/", "p", "o", "w", ".", "t", "x", "t">>
\* /foo/bar/pow.txt
TxtFooBarPow ==
    <<"/", "f", "o", "o", "/", "b", "a", "r", "/", "p", "o", "w", ".", "t", "x", "t">>
\* /foo/zip.txt
TxtFooZip ==
    <<"/", "f", "o", "o", "/", "z", "i", "p", ".", "t", "x", "t">>
\* /foo1/foo2/baz/zip.txt
TxtFoo12BazZip ==
    <<"/", "f", "o", "o", "1", "/", "f", "o", "o", "2", "/", "b", "a", "z", "/", "z", "i", "p", ".", "t", "x", "t">>

\* Texts the documentation and the tests of the crate use as inputs.
ExampleTexts ==
    {TxtFooBar, TxtBaz, TxtFooBarBaz, TxtUpPow, TxtFooBarBazDir, TxtUpUpPow,
     TxtTraversal, TxtImpossible, TxtFoo123Bar, TxtUpBazZip}

\* Texts holding U+FFFD: a &str may hold it, and to_string_lossy puts it in
\* place of every invalid byte sequence of a Path.
TxtLossy == <<"a", RC, "a">>
TxtLossyEnd == <<"a", RC>>

LossyTexts == {TxtLossy, TxtLossyEnd}

Texts == BoundedTexts \cup ExampleTexts \cup LossyTexts

-----------------------------------------------------------------------------
(* std helpers                                                             *)

\* str::starts_with(&str)
StartsWith(s, pre) ==
    /\ Len(s) >= Len(pre)
    /\ SubSeq(s, 1, Len(pre)) = pre

\* str::ends_with(&str)
EndsWith(s, suf) ==
    /\ Len(s) >= Len(suf)
    /\ SubSeq(s, Len(s) - Len(suf) + 1, Len(s)) = suf

\* str::starts_with(char) / str::ends_with(char)
StartsWithChar(s, c) == StartsWith(s, <<c>>)
EndsWithChar(s, c) == EndsWith(s, <<c>>)

\* Vec::pop, the popped element discarded: a no-op on an empty Vec.
Pop(v) == IF v = <<>> THEN <<>> ELSE SubSeq(v, 1, Len(v) - 1)

\* Vec::truncate(len): no effect when len is not below the current length.
Truncate(v, len) == IF len >= Len(v) THEN v ELSE SubSeq(v, 1, len)

\* str::split(char): the fields between the delimiters, empty ones included.
RECURSIVE SplitFrom(_, _, _, _)
SplitFrom(s, d, i, cur) ==
    IF i > Len(s) THEN <<cur>>
    ELSE IF s[i] = d THEN <<cur>> \o SplitFrom(s, d, i + 1, <<>>)
    ELSE SplitFrom(s, d, i + 1, Append(cur, s[i]))

Split(s, d) == SplitFrom(s, d, 1, <<>>)

\* [String]::join(&str)
RECURSIVE JoinStr(_, _)
JoinStr(v, sep) ==
    IF v = <<>> THEN <<>>
    ELSE IF Len(v) = 1 THEN v[1]
    ELSE v[1] \o sep \o JoinStr(Tail(v), sep)

\* Path::is_absolute / has_root on unix: the path starts with '/'.
PathHasRoot(p) == StartsWithChar(p, "/")

\* PathBuf::push on unix: an absolute argument replaces the buffer, otherwise
\* the argument is appended after a separator unless the buffer is empty or
\* already ends with one.
PathBufPush(buf, p) ==
    IF PathHasRoot(p) THEN p
    ELSE IF buf # <<>> /\ ~EndsWithChar(buf, "/") THEN buf \o <<"/">> \o p
    ELSE buf \o p

-----------------------------------------------------------------------------
(* OsPath                                                                  *)

\* OsPath::new(): the derived Default.
new ==
    [components |-> <<>>, absolute |-> FALSE, directory |-> FALSE, path |-> <<>>]

RECURSIVE PushAll(_, _)
PushAll(buf, components) ==
    IF components = <<>> THEN buf
    ELSE PushAll(PathBufPush(buf, Head(components)), Tail(components))

build_pathbuf(components, absolute) ==
    PushAll(IF absolute THEN PathBufPush(<<>>, ROOT) ELSE <<>>, components)

\* The text is what to_string_lossy yields (RC already stands for any
\* invalid byte sequence of the argument).
build_self(text) ==
    LET absolute == \/ StartsWith(text, ROOT)
                    \/ StartsWithChar(text, BS)
                    \/ StartsWithChar(text, FS)
        directory == EndsWithChar(text, SLASH) \/ EndsWith(text, UP)
        clean == [i \in 1..Len(text) |->
                     IF text[i] = BS \/ text[i] = FS THEN RC ELSE text[i]]
        components == SelectSeq(Split(clean, RC), LAMBDA s : s # <<>>)
    IN  [components |-> components,
         absolute   |-> absolute,
         directory  |-> directory,
         path       |-> build_pathbuf(components, absolute)]

build_string(p) ==
    IF p.absolute /\ p.directory
        THEN ROOT \o JoinStr(p.components, SLASH_STR) \o SLASH_STR
    ELSE IF p.absolute
        THEN ROOT \o JoinStr(p.components, SLASH_STR)
    ELSE IF ~p.directory
        THEN JoinStr(p.components, SLASH_STR)
    ELSE JoinStr(p.components, SLASH_STR) \o SLASH_STR

\* The for loop of merge_paths.
RECURSIVE MergeLoop(_, _)
MergeLoop(acc, rest) ==
    IF rest = <<>> THEN acc
    ELSE IF Head(rest) = UP THEN MergeLoop(Pop(acc), Tail(rest))
    ELSE MergeLoop(Append(acc, Head(rest)), Tail(rest))

\* merge_paths as PathBuf::push merges: an addition that is absolute replaces
\* the base.
merge_paths_AbsoluteReplaces(first, second) ==
    IF second.components = <<>> THEN first
    ELSE IF (first.components = <<>> /\ ~first.absolute) \/ second.absolute
        THEN second
    ELSE LET fileUp == ~first.directory /\ Head(second.components) = UP
             base == IF fileUp THEN Pop(Pop(first.components))
                     ELSE first.components
             rest == IF fileUp THEN Tail(second.components)
                     ELSE second.components
         IN  [first EXCEPT !.components = MergeLoop(base, rest),
                           !.directory = second.directory]

\* merge_paths with one `first.components.pop()` in the file correction.
merge_paths_OnePop(first, second) ==
    IF second.components = <<>> THEN first
    ELSE IF first.components = <<>> /\ ~first.absolute THEN second
    ELSE LET fileUp == ~first.directory /\ Head(second.components) = UP
             base == IF fileUp THEN Pop(first.components)
                     ELSE first.components
             rest == IF fileUp THEN Tail(second.components)
                     ELSE second.components
         IN  [first EXCEPT !.components = MergeLoop(base, rest),
                           !.directory = second.directory]

\* merge_paths without `second.components.remove(0)` in the file correction.
merge_paths_KeepsFirstUp(first, second) ==
    IF second.components = <<>> THEN first
    ELSE IF first.components = <<>> /\ ~first.absolute THEN second
    ELSE LET fileUp == ~first.directory /\ Head(second.components) = UP
             base == IF fileUp THEN Pop(Pop(first.components))
                     ELSE first.components
         IN  [first EXCEPT !.components = MergeLoop(base, second.components),
                           !.directory = second.directory]

\* merge_paths(first, second): the value of *first when it returns.
merge_paths(first, second) ==
    IF second.components = <<>> THEN first
    ELSE IF first.components = <<>> /\ ~first.absolute THEN second
    ELSE LET fileUp == ~first.directory /\ Head(second.components) = UP
             base == IF fileUp THEN Pop(Pop(first.components))
                     ELSE first.components
             rest == IF fileUp THEN Tail(second.components)
                     ELSE second.components
         IN  [first EXCEPT !.components = MergeLoop(base, rest),
                           !.directory = second.directory]

\* join without the build_pathbuf call after merge_paths.
join_StalePath(p, text) == merge_paths(p, build_self(text))

join(p, text) ==
    LET new_self == merge_paths(p, build_self(text))
    IN  [new_self EXCEPT
            !.path = build_pathbuf(new_self.components, new_self.absolute)]

push(p, text) ==
    LET merged == merge_paths(p, build_self(text))
    IN  [merged EXCEPT
            !.path = build_pathbuf(merged.components, merged.absolute)]

\* The loop of resolve without `new_vec.pop()`: a `..` is only left out.
RECURSIVE ResolveLoop_NoPop(_, _)
ResolveLoop_NoPop(new_vec, rest) ==
    IF rest = <<>> THEN new_vec
    ELSE IF Head(rest) # UP
        THEN ResolveLoop_NoPop(Append(new_vec, Head(rest)), Tail(rest))
    ELSE ResolveLoop_NoPop(new_vec, Tail(rest))

\* The loop of resolve without its `else`: a `..` pops and is then pushed
\* like any other component.
RECURSIVE ResolveLoop_PopThenPush(_, _)
ResolveLoop_PopThenPush(new_vec, rest) ==
    IF rest = <<>> THEN new_vec
    ELSE IF Head(rest) # UP
        THEN ResolveLoop_PopThenPush(Append(new_vec, Head(rest)), Tail(rest))
    ELSE ResolveLoop_PopThenPush(Append(Pop(new_vec), Head(rest)), Tail(rest))

\* The for loop of resolve.
RECURSIVE ResolveLoop(_, _)
ResolveLoop(new_vec, rest) ==
    IF rest = <<>> THEN new_vec
    ELSE IF Head(rest) # UP
        THEN ResolveLoop(Append(new_vec, Head(rest)), Tail(rest))
    ELSE ResolveLoop(Pop(new_vec), Tail(rest))

resolve(p) ==
    LET new_vec == ResolveLoop(<<>>, p.components)
    IN  [p EXCEPT !.components = new_vec,
                  !.path = build_pathbuf(new_vec, p.absolute)]

is_file(p) == ~p.directory

is_dir(p) == p.directory

\* Option<T>: None is the empty sequence, Some(v) the sequence holding v.
None == <<>>
Some(v) == <<v>>

name(p) ==
    IF p.components # <<>> THEN Some(p.components[Len(p.components)])
    ELSE None

\* name.split('.').last(): the field after the final '.', the whole name
\* when it holds no '.'.
extension(p) ==
    IF is_file(p)
    THEN IF name(p) = None THEN None
         ELSE LET fields == Split(name(p)[1], ".")
              IN  Some(fields[Len(fields)])
    ELSE None

\* parent() returns None when this holds.
ParentAbsent(p) == Len(p.components) < 2 /\ ~p.absolute

\* `self.components.len() - 1` on usize underflows when this holds.
ParentUnderflows(p) == ~ParentAbsent(p) /\ Len(p.components) = 0

\* parent() past the early return, i being the value of the subtraction.
ParentWith(p, i) ==
    LET comps == Truncate(p.components, i)
    IN  [p EXCEPT !.components = comps,
                  !.path = build_pathbuf(comps, p.absolute),
                  !.directory = TRUE]

-----------------------------------------------------------------------------
(* State                                                                   *)

VARIABLES
    self,             \* the OsPath the caller holds
    prev,             \* the receiver of the last operation (new for From)
    op,               \* the last operation
    arg,              \* its text argument (<<>> when it takes none)
    ret,              \* the Option returned by name / extension / parent
    fault,            \* "none"; "panic": `len() - 1` underflowed in a build
                      \* with overflow checks and the thread panicked;
                      \* "wrap": it underflowed in a build without them
    nops              \* operations counted against MaxOps

vars == <<self, prev, op, arg, ret, fault, nops>>

Init ==
    /\ self = new
    /\ prev = new
    /\ op = "new"
    /\ arg = <<>>
    /\ ret = None
    /\ fault = "none"
    /\ nops = 0

\* A panicked thread runs nothing further.
Running == fault # "panic"

\* OsPath::from(text): a constructor, it reads no earlier value, so a
\* behaviour takes it as its first operation only.
From(text) ==
    /\ Running
    /\ op = "new"
    /\ nops < MaxOps
    /\ self' = build_self(text)
    /\ prev' = new
    /\ op' = "from"
    /\ arg' = text
    /\ ret' = None
    /\ nops' = nops + 1
    /\ UNCHANGED fault

\* self = self.join(text)
Join(text) ==
    /\ Running
    /\ nops < MaxOps
    /\ self' = join(self, text)
    /\ prev' = self
    /\ op' = "join"
    /\ arg' = text
    /\ ret' = None
    /\ nops' = nops + 1
    /\ UNCHANGED fault

\* self.push(text)
Push(text) ==
    /\ Running
    /\ nops < MaxOps
    /\ self' = push(self, text)
    /\ prev' = self
    /\ op' = "push"
    /\ arg' = text
    /\ ret' = None
    /\ nops' = nops + 1
    /\ UNCHANGED fault

\* self.resolve()
Resolve ==
    /\ Running
    /\ nops < MaxOps
    /\ self' = resolve(self)
    /\ prev' = self
    /\ op' = "resolve"
    /\ arg' = <<>>
    /\ ret' = None
    /\ nops' = nops + 1
    /\ UNCHANGED fault

\* self.name()
Name ==
    /\ Running
    /\ nops < MaxOps
    /\ ret' = name(self)
    /\ prev' = self
    /\ op' = "name"
    /\ arg' = <<>>
    /\ nops' = nops + 1
    /\ UNCHANGED <<self, fault>>

\* self.extension()
Extension ==
    /\ Running
    /\ nops < MaxOps
    /\ ret' = extension(self)
    /\ prev' = self
    /\ op' = "extension"
    /\ arg' = <<>>
    /\ nops' = nops + 1
    /\ UNCHANGED <<self, fault>>

\* self.parent(): the caller goes on with the parent when there is one.
\* `self.components.len() - 1` on an empty Vec panics in a build with
\* overflow checks and wraps to usize::MAX in a build without them; a
\* behaviour is one build, so once a subtraction has wrapped none panics.
Parent ==
    /\ Running
    /\ nops < MaxOps
    /\ prev' = self
    /\ op' = "parent"
    /\ arg' = <<>>
    /\ nops' = nops + 1
    /\ IF ParentAbsent(self)
           THEN /\ ret' = None
                /\ UNCHANGED <<self, fault>>
       ELSE IF ParentUnderflows(self)
           THEN \/ /\ fault = "none"
                   /\ fault' = "panic"
                   /\ UNCHANGED <<self, ret>>
                \/ /\ fault' = "wrap"
                   /\ self' = ParentWith(self, UsizeMax)
                   /\ ret' = Some(self')
       ELSE /\ self' = ParentWith(self, Len(self.components) - 1)
            /\ ret' = Some(self')
            /\ UNCHANGED fault

Next ==
    \/ \E text \in Texts : From(text)
    \/ \E text \in Texts : Join(text)
    \/ \E text \in Texts : Push(text)
    \/ Resolve
    \/ Name
    \/ Extension
    \/ Parent

Spec == Init /\ [][Next]_vars

-----------------------------------------------------------------------------
(* Vocabulary of the properties                                            *)

Range(s) == {s[i] : i \in 1..Len(s)}

\* The empty, non-absolute path.
IsIdentity(p) == p.components = <<>> /\ ~p.absolute

\* The last operation was a join or a push.
Merged == op \in {"join", "push"}

\* The parsed argument of the last join / push.
addition == build_self(arg)

WithoutLast(s) == IF s = <<>> THEN <<>> ELSE SubSeq(s, 1, Len(s) - 1)

\* Start from the segments `start` and take the segments `segs` in order: `..`
\* removes the last accumulated segment (nothing when none is left), any
\* other segment is appended.
RECURSIVE Traverse(_, _)
Traverse(start, segs) ==
    IF segs = <<>> THEN start
    ELSE LET before == Traverse(start, WithoutLast(segs))
             s == segs[Len(segs)]
         IN  IF s = UP THEN WithoutLast(before) ELSE Append(before, s)

\* The directory a base stands in: the base itself when it is a directory,
\* the base without its file name when it is a file.
Dir(p) == IF p.directory THEN p.components ELSE WithoutLast(p.components)

IsSeparator(c) == c = "/" \/ c = "\\"

\* The non-empty maximal runs of non-separator characters of a text, in order.
RunStarts(t) ==
    {i \in 1..Len(t) : ~IsSeparator(t[i]) /\ (i = 1 \/ IsSeparator(t[i - 1]))}

RunEnd(t, i) ==
    CHOOSE j \in i..Len(t) :
        /\ \A k \in i..j : ~IsSeparator(t[k])
        /\ j = Len(t) \/ IsSeparator(t[j + 1])

Runs(t) ==
    LET S == RunStarts(t)
        Kth(k) == CHOOSE i \in S : Cardinality({j \in S : j < i}) = k - 1
    IN  [k \in 1..Cardinality(S) |-> SubSeq(t, Kth(k), RunEnd(t, Kth(k)))]

-----------------------------------------------------------------------------
(* C1 *)

\* C1: round trip.  Every value the operations produce is reproduced by
\* parsing its display string: components, absolute, directory and the
\* native path are all equal.
C1_RoundTrip == build_self(build_string(self)) = self

-----------------------------------------------------------------------------
(* C2 *)

\* C2: false-root suppression.  When the addition of a join / push has no `..`
\* segment, the result's segments are the base's followed by the addition's,
\* also when the addition's text starts with a separator; a base that is not
\* the identity keeps its absoluteness.  "/foo/bar" joined with "/baz.txt" is
\* parse("/foo/bar/baz.txt").
C2_FalseRootSuppression ==
    /\ Merged =>
          LET segments == addition.components
          IN  UP \notin Range(segments) =>
                 /\ self.components = prev.components \o segments
                 /\ ~IsIdentity(prev) => self.absolute = prev.absolute
    /\ (Merged /\ arg = TxtBaz /\ prev = build_self(TxtFooBar)) =>
          self = build_self(TxtFooBarBaz)

\* An absolute addition joined onto a base with segments.
C2_Witness ==
    /\ op = "join"
    /\ prev = build_self(TxtFooBar)
    /\ arg = TxtBaz
    /\ addition.absolute
    /\ Len(self.components) = 3

-----------------------------------------------------------------------------
(* C3 *)

\* The base of the last join / push is a file and the addition starts with `..`.
FileThenUp ==
    /\ Merged
    /\ ~IsIdentity(prev)
    /\ ~prev.directory
    /\ LET segments == addition.components
       IN  segments # <<>> /\ Head(segments) = UP

\* C3 as stated: a file base loses exactly its last segment to the first `..`
\* of the addition, the rest of the addition is then traversed;
\* "/foo/bar/baz.txt" joined with "../pow.txt" is parse("/foo/bar/pow.txt").
C3_DropsOnlyFileName ==
    /\ FileThenUp =>
          self.components =
              Traverse(WithoutLast(prev.components), Tail(addition.components))
    /\ (Merged /\ arg = TxtUpPow /\ prev = build_self(TxtFooBarBaz)) =>
          self = build_self(TxtFooBarPow)

\* C3 amended: a file base loses its last two segments (the file name and the
\* directory holding it; as many as it has when fewer) to the first `..` of
\* the addition, the rest of the addition is then traversed;
\* "/foo/bar/baz.txt" joined with "../pow.txt" is parse("/foo/pow.txt").
C3_DropsFileNameAndDirectory ==
    /\ FileThenUp =>
          self.components =
              Traverse(WithoutLast(WithoutLast(prev.components)),
                       Tail(addition.components))
    /\ (Merged /\ arg = TxtUpPow /\ prev = build_self(TxtFooBarBaz)) =>
          self = build_self(TxtFooPow)

C3_Witness ==
    /\ op = "push"
    /\ FileThenUp
    /\ prev = build_self(TxtFooBarBaz)
    /\ arg = TxtUpPow
    /\ self.components = build_self(TxtFooPow).components

-----------------------------------------------------------------------------
(* C4 *)

\* C4: classification.  A parsed text is a directory exactly when it ends
\* with a separator character, `/` or `\` on either platform, or with `..`;
\* it is a file otherwise.
C4_DirectoryIffTrailingSeparatorOrUp ==
    op = "from" =>
        /\ is_dir(self) <=>
              \/ EndsWithChar(arg, "/")
              \/ EndsWithChar(arg, "\\")
              \/ EndsWith(arg, UP)
        /\ is_file(self) <=> ~is_dir(self)

-----------------------------------------------------------------------------
(* C5 *)

\* C5: identity boundary.  Joining or pushing any parsed text onto the
\* identity path yields the parsed text's value: the same segments,
\* absoluteness and directory flag.
C5_IdentityBoundary ==
    (Merged /\ IsIdentity(prev)) =>
        /\ self.components = addition.components
        /\ self.absolute = addition.absolute
        /\ self.directory = addition.directory

-----------------------------------------------------------------------------
(* C6 *)

\* C6: no accessor fails.  name(), extension() and parent() return a value or
\* an absent result on every value; none panics and no subtraction underflows.
C6_NoAccessorFails == fault = "none"

-----------------------------------------------------------------------------
(* C7 *)

\* The last join / push had a base other than the identity and an addition
\* starting with `..`.
UpOntoBase ==
    /\ Merged
    /\ ~IsIdentity(prev)
    /\ LET segments == addition.components
       IN  segments # <<>> /\ Head(segments) = UP

\* C7: traversal on join.  With a base other than the identity and an addition
\* whose first segment is `..`, the result's segments are those reached from
\* the base's directory by taking all the addition's segments in order.
\* "/foo1/foo2/foo3/bar.txt" joined with "../baz/zip.txt" is
\* parse("/foo1/foo2/baz/zip.txt"), and "/foo/bar/baz/" joined with
\* "../../pow.txt" is parse("/foo/pow.txt").
C7_TraversalOnJoin ==
    /\ UpOntoBase =>
          self.components = Traverse(Dir(prev), addition.components)
    /\ (Merged /\ arg = TxtUpBazZip /\ prev = build_self(TxtFoo123Bar)) =>
          self = build_self(TxtFoo12BazZip)
    /\ (Merged /\ arg = TxtUpUpPow /\ prev = build_self(TxtFooBarBazDir)) =>
          self = build_self(TxtFooPow)

C7_Witness ==
    /\ op = "join"
    /\ UpOntoBase
    /\ prev = build_self(TxtFooBarBazDir)
    /\ arg = TxtUpUpPow
    /\ self.components = build_self(TxtFooPow).components

-----------------------------------------------------------------------------
(* C8 *)

\* C8: explicit resolve.  resolve() leaves the segments reached from nothing
\* by taking the value's segments in order (`..` removes the segment kept
\* last, nothing when none is kept), so no `..` is left; absoluteness and the
\* directory flag are unchanged.  resolve(parse("/foo/bar/baz/../../zip.txt"))
\* is parse("/foo/zip.txt").
C8_ExplicitResolve ==
    /\ op = "resolve" =>
          /\ self.components = Traverse(<<>>, prev.components)
          /\ UP \notin Range(self.components)
          /\ self.absolute = prev.absolute
          /\ self.directory = prev.directory
    /\ (op = "resolve" /\ prev = build_self(TxtTraversal)) =>
          self = build_self(TxtFooZip)

C8_Witness ==
    /\ op = "resolve"
    /\ prev = build_self(TxtTraversal)
    /\ UP \in Range(prev.components)
    /\ self.components = build_self(TxtFooZip).components

-----------------------------------------------------------------------------
(* C9 *)

\* C9: resolve is idempotent.  Resolving a value that resolve() has just
\* produced changes nothing.
C9_ResolveIdempotent == op = "resolve" => resolve(self) = self

\* A value with `..` segments has been resolved.
C9_Witness ==
    /\ op = "resolve"
    /\ UP \in Range(prev.components)
    /\ self # prev
    /\ self.components # <<>>

-----------------------------------------------------------------------------
(* C10 *)

\* C10: separator normalization.  The segments of a parsed text are exactly
\* its non-empty maximal runs of characters other than `/` and `\`, in order;
\* no segment is empty or holds a separator, and the test's text
\* `/\///\foo///bar\\baz.txt` parses to the value of "/foo/bar/baz.txt".
C10_SegmentsAreRuns ==
    /\ op = "from" =>
          /\ self.components = Runs(arg)
          /\ \A i \in 1..Len(self.components) :
                /\ self.components[i] # <<>>
                /\ \A c \in Range(self.components[i]) : ~IsSeparator(c)
    /\ (op = "from" /\ arg = TxtImpossible) => self = build_self(TxtFooBarBaz)

-----------------------------------------------------------------------------
(* C11 *)

HasDot(n) == "." \in Range(n)

\* The part of a name after its final `.`.
AfterFinalDot(n) ==
    LET last == CHOOSE i \in 1..Len(n) :
                    n[i] = "." /\ \A j \in (i + 1)..Len(n) : n[j] # "."
    IN  SubSeq(n, last + 1, Len(n))

\* C11: extension() returns the part of name() after its final `.`, and is
\* absent when name() is absent or holds no `.`.
C11_ExtensionAfterFinalDot ==
    op = "extension" =>
        ret = IF name(self) = None THEN None
              ELSE IF ~HasDot(name(self)[1]) THEN None
              ELSE Some(AfterFinalDot(name(self)[1]))

-----------------------------------------------------------------------------
(* C12 *)

\* The canonical join: the root marker first when absolute, then the segments
\* in order with one separator between the root or a segment and the next
\* segment.
RECURSIVE SegmentsJoined(_)
SegmentsJoined(segs) ==
    IF segs = <<>> THEN <<>>
    ELSE IF Len(segs) = 1 THEN segs[1]
    ELSE SegmentsJoined(WithoutLast(segs)) \o <<"/">> \o segs[Len(segs)]

CanonicalJoin(segs, absolute) ==
    (IF absolute THEN <<"/">> ELSE <<>>) \o SegmentsJoined(segs)

\* C12: the native path is in sync.  In every state the stored path of the
\* value held, and of a value parent() has returned, is the canonical join of
\* its current segments and absoluteness.
C12_NativePathInSync ==
    /\ self.path = CanonicalJoin(self.components, self.absolute)
    /\ (op = "parent" /\ ret # None) =>
          ret[1].path = CanonicalJoin(ret[1].components, ret[1].absolute)

\* A join has changed the segments of a base that had a path of its own.
C12_Witness ==
    /\ op = "join"
    /\ prev.components # <<>>
    /\ self.components # prev.components
    /\ self.path # prev.path
    /\ self.path = CanonicalJoin(self.components, self.absolute)

=============================================================================
